---- MODULE Spec2Model ----
(***************************************************************************)
(* The game clock / state engine of NFLPlayCall (superbowlagent.py) and    *)
(* the dashboard handlers that drive it (app.py).                          *)
(*                                                                         *)
(* Time.  time.time() is a float; the model measures the wall clock in     *)
(* ticks of 1/TicksPerSecond real seconds, so that elapsed * 2 (game       *)
(* seconds) keeps a fractional part and int() truncates as in the code.    *)
(***************************************************************************)
EXTENDS Integers, Sequences, FiniteSets, TLC

\* ---------------------------------------------------------------- bounds
\* Resolution of the modelled wall clock (ticks per real second).
TicksPerSecond == 4
\* Spec stops calling simulate_game_update once update_count reaches this.
MaxUpdates == 3
\* SpecClock draws the elapsed real time from 0..MaxElapsedSeconds seconds.
MaxElapsedSeconds == 1850
\* SpecOutage, SpecFallback, SpecScoring and SpecConsole start no cycle once
\* update_count has reached this.
MaxOutageUpdates == 11

\* SpecSessions lets each session call simulate_game_update this often.
MaxSessionUpdates == 2

\* ------------------------------------------------------ program constants
\* superbowlagent.py:210  game_seconds_elapsed = elapsed_seconds * 2
Acceleration == 2
\* superbowlagent.py:213  seconds_per_quarter = 15 * 60
SecondsPerQuarter == 900
\* superbowlagent.py:216  quarter = min(quarter, 4)
MaxQuarter == 4
\* superbowlagent.py:318  self.update_count % 10 == 0
ScoreEvery == 10
\* superbowlagent.py:586  feature = self.update_count % 7
FeatureCount == 7
\* superbowlagent.py:660  time.sleep(300), in seconds
StartupSleep == 300
\* superbowlagent.py:673  time.sleep(2), in seconds
LoopSleep == 2

VARIABLES
    game_state,     \* the module-level dict game_state
    update_count,   \* SuperBowlAgent.update_count
    now,            \* time.time(), in ticks
    ret,            \* value returned by the call that just completed
    call,           \* what the last step was and what it did
    loop,           \* where main() of the console program is
    advance,        \* per dashboard session: its simulate_game_update call
    peer_count      \* update_count of the second session's SuperBowlAgent

vars == <<game_state, update_count, now, ret, call, loop, advance, peer_count>>

\* What the single-session dashboard operations leave alone.
beyond == <<loop, advance, peer_count>>

\* ------------------------------------------------- get_game_time's pieces
Min(a, b) == IF a < b THEN a ELSE b

\* elapsed_seconds * 2, in ticks of game time
GameTicksElapsed(elapsed) == elapsed * Acceleration

\* QuarterOf without the cap of line 216.
QuarterOf_Uncapped(gt) == (gt \div (SecondsPerQuarter * TicksPerSecond)) + 1

\* int(game_seconds_elapsed // seconds_per_quarter) + 1, capped at 4
QuarterOf(gt) ==
    Min((gt \div (SecondsPerQuarter * TicksPerSecond)) + 1, MaxQuarter)

\* int(game_seconds_elapsed % seconds_per_quarter)
SecondsInQuarter(gt) ==
    (gt % (SecondsPerQuarter * TicksPerSecond)) \div TicksPerSecond

\* SecondsRemaining counting from 899 down to 0.
SecondsRemaining_ToZero(gt) == SecondsPerQuarter - 1 - SecondsInQuarter(gt)

\* seconds_per_quarter - seconds_in_quarter
SecondsRemaining(gt) == SecondsPerQuarter - SecondsInQuarter(gt)

\* the format spec {n:02d}
Pad2(n) == IF n < 10 THEN "0" \o ToString(n) ELSE ToString(n)

\* f"{minutes:02d}:{seconds:02d}"
TimeStr(minutes, seconds) == Pad2(minutes) \o ":" \o Pad2(seconds)

\* get_game_time without the game_started guard of lines 203-204.
get_game_time_Unguarded(gs, t) ==
    LET gt       == GameTicksElapsed(t - gs.game_start_timestamp)
        rem      == SecondsRemaining(gt)
        time_str == TimeStr(rem \div 60, rem % 60)
    IN  [gs |-> [gs EXCEPT !.quarter = QuarterOf(gt),
                           !.time_remaining = time_str],
         time_str |-> time_str, quarter |-> QuarterOf(gt)]

\* get_game_time on state gs at wall-clock time t: the state it leaves and
\* the pair it returns.
get_game_time(gs, t) ==
    IF ~gs.game_started
    THEN [gs |-> gs, time_str |-> "15:00", quarter |-> 1]
    ELSE
        LET gt       == GameTicksElapsed(t - gs.game_start_timestamp)
            quarter  == QuarterOf(gt)
            rem      == SecondsRemaining(gt)
            minutes  == rem \div 60
            seconds  == rem % 60
            time_str == TimeStr(minutes, seconds)
            gs1      == [gs EXCEPT !.quarter = quarter,
                                   !.time_remaining = time_str]
            gs2      == IF quarter = 4 /\ minutes = 0 /\ seconds = 0
                        THEN [gs1 EXCEPT !.game_ended = TRUE]
                        ELSE gs1
        IN  [gs |-> gs2, time_str |-> time_str, quarter |-> quarter]

\* --------------------------------------------------- the scoreboard feed
\* What one GET of the scoreboard produced, as far as simulate_game_update
\* reads it.  kind: "error" (timeout, transport error, HTTP error status,
\* unparsable or wrongly shaped payload: an exception before any write),
\* "nomatch" (a payload without an NE/SEA event) or "event" (the first
\* event whose two competitors are NE and SEA).  fault names the place where
\* a partly malformed event raises: "status" (competitions[0].status is not
\* an object, or displayClock is not a string: lines 278-279), "situation"
\* (competitions[0].situation is not an object: line 287), "type"
\* (game.status or its type is not an object: line 291), or "none".
\* Fields the code never reaches keep the values of Blank.
Blank ==
    [kind |-> "none", team1 |-> "NE", team2 |-> "SEA", score1 |-> 0,
     score2 |-> 0, clock |-> "", period |-> 0, possession |-> "NE",
     status |-> "", fault |-> "none"]

ColonClocks == {"08:12"}                    \* displayClock values with ':'
NoColonClocks == {"0.0"}                    \* displayClock values without
FeedClocks == ColonClocks \cup NoColonClocks
FeedPeriods == {0, 3, 5}
FeedPossessions == {"NE", "SEA"}
FeedStatuses == {"In Progress", "Halftime", "Final"}

\* The competitors part of an event: NE in slot 0 (NE 21, SEA 14), or NE in
\* slot 1 (SEA 3, NE 0).  int(score) is the number the feed's string spells.
Competitors ==
    {[Blank EXCEPT !.kind = "event", !.score1 = 21, !.score2 = 14],
     [Blank EXCEPT !.kind = "event", !.team1 = "SEA", !.team2 = "NE",
                   !.score1 = 3, !.score2 = 0]}

WithClock(evs) ==
    {[e EXCEPT !.clock = c, !.period = p]
        : e \in evs, c \in FeedClocks, p \in FeedPeriods}
WithPossession(evs) ==
    {[e EXCEPT !.possession = t] : e \in evs, t \in FeedPossessions}
WithStatus(evs) ==
    {[e EXCEPT !.status = st] : e \in evs, st \in FeedStatuses}

CleanEvents == WithStatus(WithPossession(WithClock(Competitors)))
FaultEvents ==
    {[e EXCEPT !.fault = "status"] : e \in Competitors}
    \cup {[e EXCEPT !.fault = "situation"] : e \in WithClock(Competitors)}
    \cup {[e EXCEPT !.fault = "type"]
            : e \in WithPossession(WithClock(Competitors))}
Failures == {[Blank EXCEPT !.kind = k] : k \in {"error", "nomatch"}}

\* clock and ":" in clock
HasColon(clock) == clock \in ColonClocks

\* ------------------------------------------- simulate_game_update's pieces
\* lines 267-275: both scores, to the team of each slot
WriteScores(gs, ev) ==
    IF ev.team1 = "NE"
    THEN [gs EXCEPT !.current_score =
                        [@ EXCEPT !.NE = ev.score1, !.SEA = ev.score2]]
    ELSE [gs EXCEPT !.current_score =
                        [@ EXCEPT !.SEA = ev.score1, !.NE = ev.score2]]

\* lines 278-284: the display clock, if it has a ':', and the period
WriteClock(gs, ev) ==
    LET g == IF HasColon(ev.clock)
             THEN [gs EXCEPT !.time_remaining = ev.clock]
             ELSE gs
    IN  [g EXCEPT !.quarter = ev.period]

\* lines 287-288
WritePossession(gs, ev) == [gs EXCEPT !.possession = ev.possession]

\* WriteStatus assigning game_ended from the status instead of latching it.
WriteStatus_Unlatched(gs, ev) ==
    [gs EXCEPT !.game_ended = (ev.status = "Final"),
               !.halftime_passed = @ \/ ev.status = "Halftime",
               !.game_started = TRUE]

\* WriteStatus ending the game at any status but "In Progress".
WriteStatus_EndsAtHalftime(gs, ev) ==
    [gs EXCEPT !.game_ended = @ \/ ev.status # "In Progress",
               !.halftime_passed = @ \/ ev.status = "Halftime",
               !.game_started = TRUE]

\* lines 291-299: the latches the status sets, and game_started
WriteStatus(gs, ev) ==
    LET g == IF ev.status = "Final"
             THEN [gs EXCEPT !.game_ended = TRUE]
             ELSE IF ev.status = "Halftime" /\ ~gs.halftime_passed
                  THEN [gs EXCEPT !.halftime_passed = TRUE]
                  ELSE gs
    IN  [g EXCEPT !.game_started = TRUE]

\* random.choice([True, False]) and random.choice([3, 6, 7])
Picks == [ne : BOOLEAN, points : {3, 6, 7}]

\* fallback_simulation without the game_ended test of line 318.
fallback_simulation_ScoresAfterEnd(gs, t, uc, pick) ==
    LET r  == get_game_time([gs EXCEPT !.game_started = TRUE], t)
        g  == IF uc % ScoreEvery = 0
              THEN IF pick.ne
                   THEN [r.gs EXCEPT !.current_score.NE = @ + pick.points]
                   ELSE [r.gs EXCEPT !.current_score.SEA = @ + pick.points]
              ELSE r.gs
    IN  [gs |-> g,
         msg |-> "Simulated: Q" \o ToString(r.quarter) \o " " \o r.time_str]

\* _fallback_simulation with update_count uc at time t; pick is what the
\* random source yields if it is consulted.
fallback_simulation(gs, t, uc, pick) ==
    LET r  == get_game_time([gs EXCEPT !.game_started = TRUE], t)
        g  == IF uc % ScoreEvery = 0 /\ ~r.gs.game_ended
              THEN IF pick.ne
                   THEN [r.gs EXCEPT !.current_score.NE = @ + pick.points]
                   ELSE [r.gs EXCEPT !.current_score.SEA = @ + pick.points]
              ELSE r.gs
    IN  [gs |-> g,
         msg |-> "Simulated: Q" \o ToString(r.quarter) \o " " \o r.time_str]

\* Degrade letting the failure reach the caller instead of falling back.
Degrade_Raises(gs, t, uc, pick, written) ==
    [gs |-> gs, msg |-> "", written |-> written,
     fellback |-> FALSE, raised |-> TRUE]

\* The except branch (lines 305-307) and the fall-through (line 303): the
\* fallback runs on whatever the try block had written.
Degrade(gs, t, uc, pick, written) ==
    LET f == fallback_simulation(gs, t, uc, pick)
    IN  [gs |-> f.gs, msg |-> f.msg, written |-> written,
         fellback |-> TRUE, raised |-> FALSE]

\* The body of simulate_game_update after the counter is incremented to uc.
\* written: the fields of game_state assigned from the feed in this cycle.
simulate_game_update(gs, t, uc, resp, pick) ==
    IF resp.kind # "event"
    THEN Degrade(gs, t, uc, pick, {})
    ELSE
        LET g1 == WriteScores(gs, resp)
            w1 == {"current_score"}
            g2 == WriteClock(g1, resp)
            w2 == w1 \cup {"quarter"}
                     \cup (IF HasColon(resp.clock)
                           THEN {"time_remaining"} ELSE {})
            g3 == WritePossession(g2, resp)
            w3 == w2 \cup {"possession"}
            g4 == WriteStatus(g3, resp)
            w4 == w3 \cup {"flags"}
        IN  CASE resp.fault = "status"    -> Degrade(g1, t, uc, pick, w1)
              [] resp.fault = "situation" -> Degrade(g2, t, uc, pick, w2)
              [] resp.fault = "type"      -> Degrade(g3, t, uc, pick, w3)
              [] OTHER ->
                    [gs |-> g4, msg |-> "Update: " \o resp.status,
                     written |-> w4, fellback |-> FALSE, raised |-> FALSE]

\* ------------------------------------------------------------------ state
\* call: the last step (op), the feed response a cycle saw, the fields it
\* wrote from the feed, whether it ran the fallback, whether it raised.
NoCall(op) ==
    [op |-> op, response |-> Blank, written |-> {},
     fellback |-> FALSE, raised |-> FALSE]

\* The module-level literal, with game_start_timestamp as __init__ set it.
InitialGameState(t) ==
    [current_score        |-> [NE |-> 0, SEA |-> 0],
     quarter              |-> 1,
     time_remaining       |-> "15:00",
     game_started         |-> FALSE,
     game_ended           |-> FALSE,
     previous_score       |-> [NE |-> 0, SEA |-> 0],
     possession           |-> "NE",
     halftime_passed      |-> FALSE,
     win_probability      |-> [NE |-> 55, SEA |-> 45],
     game_start_timestamp |-> t]

\* The two dashboard sessions (browser tabs) of SpecSessions.
Sessions == {1, 2}

\* No simulate_game_update call is in progress in any session.
NoAdvance == [s \in Sessions |-> [pc |-> "idle", response |-> Blank]]

Init ==
    /\ now = 0
    /\ game_state = InitialGameState(0)
    /\ update_count = 0
    /\ ret = <<>>
    /\ call = NoCall("init")
    /\ loop = "start"
    /\ advance = NoAdvance
    /\ peer_count = 0

\* ---------------------------------------------------------------- actions
\* agent.get_game_time(user_timezone), as the dashboard calls it on each run
GetGameTime ==
    \E r \in {get_game_time(game_state, now)} :
        /\ game_state' = r.gs
        /\ ret' = <<r.time_str, r.quarter>>
        /\ call' = NoCall("get_game_time")
        /\ UNCHANGED <<update_count, now, beyond>>

\* The "Start Game" button
StartGame ==
    /\ game_state' = [game_state EXCEPT !.game_started = TRUE]
    /\ ret' = <<>>
    /\ call' = NoCall("start")
    /\ UNCHANGED <<update_count, now, beyond>>

\* Wall-clock instants at which Spec observes the program, in ticks: game
\* seconds 0, 450, 900 and 3600 after the start timestamp, and the last tick
\* before game second 3600.
GameInstants == {0, 450, 900, 3600}
Instants ==
    {(g * TicksPerSecond) \div Acceleration : g \in GameInstants}
        \cup {((3600 * TicksPerSecond) \div Acceleration) - 1}

\* Time passes between two operations.
Tick ==
    /\ \E t \in Instants : t > now /\ now' = t
    /\ ret' = <<>>
    /\ call' = NoCall("tick")
    /\ UNCHANGED <<game_state, update_count, beyond>>

\* random is consulted only when the scoring condition holds (line 318).
PicksAt(uc) ==
    IF uc % ScoreEvery = 0 THEN Picks ELSE {[ne |-> TRUE, points |-> 3]}

\* One call of simulate_game_update that receives resp from the feed, while
\* update_count is below max.
Cycle(resp, max) ==
    /\ update_count < max
    /\ \E pick \in PicksAt(update_count + 1) :
        \E r \in {simulate_game_update(game_state, now, update_count + 1,
                                       resp, pick)} :
            /\ game_state' = r.gs
            /\ ret' = IF r.raised THEN <<>> ELSE <<r.msg>>
            /\ call' = [op |-> "simulate_game_update", response |-> resp,
                        written |-> r.written, fellback |-> r.fellback,
                        raised |-> r.raised]
    /\ update_count' = update_count + 1
    /\ UNCHANGED <<now, beyond>>

\* The feed returns the NE/SEA event, well formed.
UpdateLive == \E resp \in CleanEvents : Cycle(resp, MaxUpdates)

\* The feed returns the NE/SEA event, malformed part-way.
UpdatePartial == \E resp \in FaultEvents : Cycle(resp, MaxUpdates)

\* The request fails, or the payload holds no NE/SEA event.
UpdateFallback == \E resp \in Failures : Cycle(resp, MaxUpdates)

Next ==
    \/ GetGameTime
    \/ StartGame
    \/ Tick
    \/ UpdateLive
    \/ UpdatePartial
    \/ UpdateFallback

Spec == Init /\ [][Next]_vars

\* ------------------------------------------------------------- SpecClock
\* get_game_time as a function of the elapsed time: a started game whose
\* elapsed real time is drawn from 0..MaxElapsedSeconds, queried, and queried
\* again each time one more second of game time has elapsed.
ClockInit ==
    /\ now \in 0 .. (MaxElapsedSeconds * TicksPerSecond)
    /\ game_state = [InitialGameState(0) EXCEPT !.game_started = TRUE]
    /\ update_count = 0
    /\ ret = <<>>
    /\ call = NoCall("init")
    /\ loop = "start"
    /\ advance = NoAdvance
    /\ peer_count = 0

\* One second of game time, in ticks of the wall clock.
GameSecond == TicksPerSecond \div Acceleration

TickSecond ==
    /\ call.op = "get_game_time"
    /\ now + GameSecond <= MaxElapsedSeconds * TicksPerSecond
    /\ now' = now + GameSecond
    /\ ret' = <<>>
    /\ call' = NoCall("tick")
    /\ UNCHANGED <<game_state, update_count, beyond>>

ClockNext == GetGameTime \/ TickSecond

SpecClock == ClockInit /\ [][ClockNext]_vars

\* ------------------------------------------------------------ SpecOutage
\* A session that begins with the feed down: every cycle up to update
\* ScoreEvery takes the fallback path, then the feed answers.
OutageFallback ==
    /\ update_count < ScoreEvery
    /\ \E resp \in Failures : Cycle(resp, MaxOutageUpdates)

OutageLive ==
    /\ update_count >= ScoreEvery
    /\ \E resp \in CleanEvents : Cycle(resp, MaxOutageUpdates)

OutageNext == GetGameTime \/ Tick \/ OutageFallback \/ OutageLive

SpecOutage == Init /\ [][OutageNext]_vars

\* ---------------------------------------------------------- SpecFallback
\* Sessions in which the feed never answers with an NE/SEA event, so that
\* every call of simulate_game_update takes the fallback path: the dashboard
\* (while main() has not been launched) or the console program.
\* Game seconds at which SpecFallback observes the program: in each quarter,
\* the second before game second 3600, and past it.
FallbackGameInstants == {0, 450, 900, 1800, 2700, 3599, 3600, 4500}
FallbackInstants ==
    {(g * TicksPerSecond) \div Acceleration : g \in FallbackGameInstants}
        \cup {((3600 * TicksPerSecond) \div Acceleration) - 1}

\* main() has not been launched: the process is the dashboard.
Dashboard == loop = "start"

FallbackQuery == Dashboard /\ GetGameTime

FallbackStart == Dashboard /\ StartGame

FallbackTick ==
    /\ Dashboard
    /\ \E t \in FallbackInstants : t > now /\ now' = t
    /\ ret' = <<>>
    /\ call' = NoCall("tick")
    /\ UNCHANGED <<game_state, update_count, beyond>>

\* Another browser session runs the dashboard script for the first time:
\* it constructs its own SuperBowlAgent, which stores time.time() in the
\* shared game_state, and calls get_game_time.
NewSession ==
    /\ Dashboard
    /\ \E r \in {get_game_time(
                    [game_state EXCEPT !.game_start_timestamp = now], now)} :
        /\ game_state' = r.gs
        /\ ret' = <<r.time_str, r.quarter>>
    /\ call' = NoCall("new_session")
    /\ peer_count' = 0
    /\ UNCHANGED <<update_count, now, loop, advance>>

FallbackCycle ==
    /\ Dashboard
    /\ \E resp \in Failures : Cycle(resp, MaxOutageUpdates)

\* ---------------------------------------------------- the console program
\* Whether the text-generation calls of one run_update_cycle succeed: the
\* one of get_win_probability_explanation, which show_game_status makes,
\* and the one of the cycle's feature.
Generations == [status : BOOLEAN, feature : BOOLEAN]

\* The features whose text-generation call is inside no try block:
\* show_player_spotlight.  (Commentary, lesson, sentiment and fun fact catch
\* the failure and print a stock text; the others make no call.)
UnguardedFeatures == {3}

\* run_update_cycle on state gs with counter uc.  outcome: "True" or "False"
\* returned, or "raised" when a text-generation failure leaves the method.
run_update_cycle(gs, t, uc, resp, pick, gen) ==
    LET r       == simulate_game_update(gs, t, uc + 2, resp, pick)
        feature == (uc + 2) % FeatureCount
    IN  IF ~gen.status
        THEN [gs |-> gs, update_count |-> uc + 1, outcome |-> "raised",
              written |-> {}, fellback |-> FALSE]
        ELSE [gs |-> r.gs, update_count |-> uc + 2,
              outcome |-> IF feature \in UnguardedFeatures /\ ~gen.feature
                          THEN "raised"
                          ELSE IF r.gs.game_ended THEN "False" ELSE "True",
              written |-> r.written, fellback |-> r.fellback]

\* main() up to the loop: the agent exists since Init; time.sleep(300).
MainStart ==
    /\ loop = "start"
    /\ call.op = "init"
    /\ \E t \in FallbackInstants :
        /\ t >= now + StartupSleep * TicksPerSecond
        /\ now' = t
    /\ loop' = "running"
    /\ ret' = <<>>
    /\ call' = NoCall("sleep")
    /\ UNCHANGED <<game_state, update_count, advance, peer_count>>

\* The feature of a cycle calls the text generator unguarded only when it
\* is show_player_spotlight.
GenerationsAt(uc) ==
    IF uc % FeatureCount \in UnguardedFeatures
    THEN Generations
    ELSE {g \in Generations : g.feature}

\* One iteration of main()'s loop, the feed answering with one of
\* responses: run_update_cycle, then break (returned False, or an
\* exception), or time.sleep(2) and whatever longer the iteration took.
MainCycle(responses, max) ==
    /\ loop = "running"
    /\ update_count < max
    /\ \E resp \in responses, pick \in PicksAt(update_count + 2),
          gen \in GenerationsAt(update_count + 2) :
        \E r \in {run_update_cycle(game_state, now, update_count,
                                   resp, pick, gen)} :
            /\ game_state' = r.gs
            /\ update_count' = r.update_count
            /\ ret' = CASE r.outcome = "True"  -> <<TRUE>>
                        [] r.outcome = "False" -> <<FALSE>>
                        [] OTHER               -> <<>>
            /\ call' = [op |-> "run_update_cycle",
                        response |-> IF gen.status THEN resp ELSE Blank,
                        written |-> r.written, fellback |-> r.fellback,
                        raised |-> r.outcome = "raised"]
            /\ loop' = CASE r.outcome = "True"  -> "running"
                         [] r.outcome = "False" -> "ended"
                         [] OTHER               -> "error"
            /\ IF r.outcome = "True"
               THEN \E t \in {now + LoopSleep * TicksPerSecond}
                                \cup FallbackInstants :
                        /\ t >= now + LoopSleep * TicksPerSecond
                        /\ now' = t
               ELSE now' = now
    /\ UNCHANGED <<advance, peer_count>>

\* The console program with the feed down.
ConsoleOutage == MainCycle(Failures, MaxOutageUpdates)

FallbackNext ==
    \/ FallbackQuery
    \/ FallbackStart
    \/ FallbackTick
    \/ NewSession
    \/ FallbackCycle
    \/ MainStart
    \/ ConsoleOutage

SpecFallback == Init /\ [][FallbackNext]_vars

\* ----------------------------------------------------------- SpecConsole
\* The console program: main() and its loop over run_update_cycle, the feed
\* failing or answering with a well-formed event of any status.
ConsoleResponses ==
    Failures \cup {e \in CleanEvents : /\ e.team1 = "NE"
                                       /\ e.clock = "08:12"
                                       /\ e.period = 3
                                       /\ e.possession = "SEA"}

ConsoleCycle == MainCycle(ConsoleResponses, MaxOutageUpdates)

ConsoleNext == MainStart \/ ConsoleCycle

SpecConsole == Init /\ [][ConsoleNext]_vars

\* ----------------------------------------------------------- SpecScoring
\* A dashboard session whose feed is down except that, at any cycle, it may
\* answer with a Final event or with an event that is malformed after its
\* scores; the Update button is pressed up to the cycle after the one that
\* scores.
FinalEvents ==
    {e \in CleanEvents : /\ e.status = "Final"
                         /\ e.team1 = "NE"
                         /\ e.clock = "08:12"
                         /\ e.period = 3
                         /\ e.possession = "SEA"}

ScoreOnlyEvents == {e \in FaultEvents : e.fault = "status" /\ e.team1 = "NE"}

ScoringFallback == \E resp \in Failures : Cycle(resp, MaxOutageUpdates)

ScoringPartial == \E resp \in ScoreOnlyEvents : Cycle(resp, MaxOutageUpdates)

ScoringFinal == \E resp \in FinalEvents : Cycle(resp, MaxOutageUpdates)

ScoringNext ==
    \/ GetGameTime
    \/ Tick
    \/ ScoringFallback
    \/ ScoringPartial
    \/ ScoringFinal

SpecScoring == Init /\ [][ScoringNext]_vars

\* ---------------------------------------------------------- SpecSessions
\* Two browser sessions of the dashboard in one server process.  Each has
\* its own script thread and its own SuperBowlAgent; both agents work on the
\* one game_state of the imported module.  Nothing in simulate_game_update
\* acquires a lock, so a session's call proceeds statement group by
\* statement group and the other session's thread may run between any two
\* (certainly while the request of line 250 is waiting).  ret and call
\* describe single-session steps and are left alone here.
SessionResponses ==
    Failures \cup {e \in CleanEvents :
                    /\ e.clock = "08:12" /\ e.period = 3
                    /\ e.status = "In Progress"
                    /\ e.possession = e.team1}

\* self.update_count of the agent of session s
CountOf(s) == IF s = 1 THEN update_count ELSE peer_count

\* lines 247-262: the counter, the request and its answer
SessionBegin ==
    \E s \in Sessions, resp \in SessionResponses :
        /\ advance[s].pc = "idle"
        /\ CountOf(s) < MaxSessionUpdates
        /\ advance' = [advance EXCEPT ![s] =
                        [pc |-> IF resp.kind = "event"
                                THEN "scores" ELSE "fallback",
                         response |-> resp]]
        /\ update_count' = IF s = 1 THEN update_count + 1 ELSE update_count
        /\ peer_count' = IF s = 2 THEN peer_count + 1 ELSE peer_count
        /\ UNCHANGED <<game_state, now, ret, call, loop>>

\* A session whose call is at stage pc stores gs and moves to stage next.
SessionWrite(s, pc, gs, next) ==
    /\ advance[s].pc = pc
    /\ game_state' = gs
    /\ advance' = [advance EXCEPT ![s].pc = next]
    /\ UNCHANGED <<update_count, now, ret, call, loop, peer_count>>

SessionScores ==
    \E s \in Sessions :
        SessionWrite(s, "scores",
                     WriteScores(game_state, advance[s].response), "clock")

SessionClock ==
    \E s \in Sessions :
        SessionWrite(s, "clock",
                     WriteClock(game_state, advance[s].response), "possession")

SessionPossession ==
    \E s \in Sessions :
        SessionWrite(s, "possession",
                     WritePossession(game_state, advance[s].response),
                     "status")

\* lines 291-301, and the return
SessionStatus ==
    \E s \in Sessions :
        SessionWrite(s, "status",
                     WriteStatus(game_state, advance[s].response), "idle")

\* lines 303-307: _fallback_simulation, and the return
SessionFallback ==
    \E s \in Sessions :
        /\ advance[s].pc = "fallback"
        /\ \E pick \in PicksAt(CountOf(s)) :
            game_state' =
                fallback_simulation(game_state, now, CountOf(s), pick).gs
        /\ advance' = [advance EXCEPT ![s].pc = "idle"]
        /\ UNCHANGED <<update_count, now, ret, call, loop, peer_count>>

SessionsNext ==
    \/ SessionBegin
    \/ SessionScores
    \/ SessionClock
    \/ SessionPossession
    \/ SessionStatus
    \/ SessionFallback
    \/ Tick

SpecSessions == Init /\ [][SessionsNext]_vars

\* ------------------------------------------------------------ properties
Simulated == call.op = "simulate_game_update"
Queried == call.op = "get_game_time"
Elapsed == now - game_state.game_start_timestamp

\* C1: once game_state["game_ended"] is true, no get_game_time call and no
\* simulate_game_update cycle (live-sync with any status, or fallback) makes
\* it false again.
C1_EndedLatch ==
    [][game_state.game_ended => game_state'.game_ended]_vars

\* A fallback cycle has run on a game that had ended.
C1_Witness ==
    /\ Simulated /\ call.fellback
    /\ game_state.game_ended

\* C2: both scores are non-negative, and no advance leaves a team's score
\* lower than it was after the previous advance.
C2_ScoresNeverDecrease ==
    [][/\ game_state'.current_score.NE >= 0
       /\ game_state'.current_score.SEA >= 0
       /\ game_state'.current_score.NE >= game_state.current_score.NE
       /\ game_state'.current_score.SEA >= game_state.current_score.SEA]_vars

\* C3: for a started game, get_game_time at elapsed real time t returns and
\* stores quarter = min(4, floor(2t/900) + 1).  With e = t * TicksPerSecond:
\* quarter q < 4 exactly when 900(q-1) <= 2t < 900q, and 4 from 2t >= 2700.
C3_QuarterFormula ==
    (Queried /\ game_state.game_started) =>
        LET q == ret[2]
            e == Elapsed
        IN  /\ q = game_state.quarter
            /\ q \in 1 .. 4
            /\ q < 4 => /\ 900 * (q - 1) * TicksPerSecond <= 2 * e
                        /\ 2 * e < 900 * q * TicksPerSecond
            /\ q = 4 => 2 * e >= 2700 * TicksPerSecond

\* get_game_time has answered at or past game second 3600, where
\* floor(2t/900) + 1 >= 5 is clamped.
C3_Witness ==
    /\ Queried /\ game_state.game_started
    /\ 2 * Elapsed >= 3600 * TicksPerSecond
    /\ ret[2] = 4

\* The number of seconds an mm:ss clock string of get_game_time spells.
ClockTable == [n \in 0 .. 900 |-> TimeStr(n \div 60, n % 60)]
ClockSeconds(str) == CHOOSE n \in 0 .. 900 : ClockTable[n] = str

\* C4: between two get_game_time calls one second of game time apart, the
\* clock strictly decreases if the quarter is unchanged, and the clock reads
\* 15:00 exactly when the quarter changed; at every elapsed time.
C4_ClockDecreasesThenRolls ==
    [][(call.op = "tick" /\ call'.op = "get_game_time") =>
        LET q0 == game_state.quarter
            q1 == ret'[2]
            c0 == ClockSeconds(game_state.time_remaining)
            c1 == ClockSeconds(ret'[1])
        IN  /\ q1 = q0 => c1 < c0
            /\ (ret'[1] = "15:00") <=> (q1 # q0)]_vars

\* The score the event reports for a team, whichever slot it is in.
EventScore(ev, team) == IF ev.team1 = team THEN ev.score1 ELSE ev.score2

\* C5: after a cycle that received an NE/SEA event, the scores, quarter,
\* time_remaining and possession of game_state are the event's.
C5_LiveOverwritesAll ==
    (Simulated /\ call.response.kind = "event") =>
        /\ game_state.current_score.NE = EventScore(call.response, "NE")
        /\ game_state.current_score.SEA = EventScore(call.response, "SEA")
        /\ game_state.quarter = call.response.period
        /\ game_state.time_remaining = call.response.clock
        /\ game_state.possession = call.response.possession

\* The fields of game_state a live cycle assigns from the event.
\* (win_probability is assigned by no cycle of either kind.)
FeedFields ==
    {"current_score", "time_remaining", "quarter", "possession", "flags"}

\* C6: after every cycle, either every field came from the feed event and
\* the fallback did not run, or no field came from the feed.
C6_OneSourcePerCycle ==
    Simulated =>
        \/ call.written = {}
        \/ call.written = FeedFields /\ ~call.fellback

\* C7: when the request fails, or the payload has no NE/SEA event or is
\* malformed, simulate_game_update does not raise, runs the fallback (the
\* game is started, and what it returns is the simulated quarter and clock
\* now stored), and returns a non-empty string.
C7_FailureFallsBack ==
    (Simulated /\ (call.response.kind # "event"
                     \/ call.response.fault # "none")) =>
        /\ ~call.raised
        /\ call.fellback
        /\ game_state.game_started
        /\ Len(ret) = 1
        /\ ret[1] # ""
        /\ ret[1] = "Simulated: Q" \o ToString(game_state.quarter)
                        \o " " \o game_state.time_remaining

\* A cycle whose request failed has completed.
C7_Witness ==
    /\ Simulated
    /\ call.response.kind = "error"
    /\ Len(ret) = 1

\* C8: while game_started is false, get_game_time returns ("15:00", 1)
\* whatever the time elapsed, and leaves game_state (game_ended included) as
\* it was.
C8_PregameQuery ==
    [][(call'.op = "get_game_time" /\ ~game_state.game_started) =>
        /\ ret' = <<"15:00", 1>>
        /\ game_state' = game_state
        /\ ~game_state'.game_ended]_vars

\* get_game_time has answered before the start, an hour of game time after
\* the start timestamp.
C8_Witness ==
    /\ Queried /\ ~game_state.game_started
    /\ 2 * Elapsed >= 3600 * TicksPerSecond
    /\ ret = <<"15:00", 1>>

\* C9: game_ended becomes true only in a live-sync cycle that saw status
\* Final, or when the elapsed-time calculation has just produced quarter 4
\* with clock 00:00.
C9_EndedOnlyByFinalOrClock ==
    [][(~game_state.game_ended /\ game_state'.game_ended) =>
        \/ /\ call'.op = "simulate_game_update"
           /\ call'.response.kind = "event"
           /\ call'.response.status = "Final"
           /\ ~call'.fellback
        \/ /\ call'.op = "get_game_time" \/ call'.fellback
           /\ game_state'.quarter = 4
           /\ game_state'.time_remaining = "00:00"]_vars

\* The first cycle of a session saw the event with status Final.
C9_Witness ==
    /\ Simulated /\ update_count = 1
    /\ call.response.status = "Final"
    /\ game_state.game_ended

\* C10: game_state["quarter"] is always one of 1, 2, 3, 4.
C10_QuarterInRange == game_state.quarter \in 1 .. 4

\* C12: simulate_game_update returns a non-empty summary exactly in the
\* cycles that changed game_state, and nothing when the cycle left every
\* field as it was.
C12_SummaryOnlyOnChange ==
    [][call'.op = "simulate_game_update" =>
        ((ret' # <<>> /\ ret'[1] # "") <=> game_state' # game_state)]_vars

\* C13: every step that changes a field of game_state is a call of
\* simulate_game_update; get_game_time and the dashboard's button handlers
\* leave game_state as it was.
C13_OnlyAdvanceWrites ==
    [][game_state' # game_state => call'.op = "simulate_game_update"]_vars

\* C18: a cycle that begins with game_started false and gets nothing from
\* the feed leaves the pregame display (quarter 1, clock 15:00) whatever the
\* time elapsed, and leaves game_ended false.
C18_PregameFallback ==
    [][(/\ call'.op = "simulate_game_update"
        /\ call'.response.kind # "event"
        /\ ~game_state.game_started) =>
        /\ game_state'.quarter = 1
        /\ game_state'.time_remaining = "15:00"
        /\ ~game_state'.game_ended]_vars

\* C17: a fallback cycle that takes the quarter from 2 to 3 while
\* halftime_passed is false sets halftime_passed, and halftime_passed, once
\* set, stays set.
C17_FallbackHalftimeLatch ==
    [][/\ (/\ call'.fellback
           /\ game_state.quarter = 2 /\ game_state'.quarter = 3
           /\ ~game_state.halftime_passed) => game_state'.halftime_passed
       /\ game_state.halftime_passed => game_state'.halftime_passed]_vars

\* C20: no step (live-sync cycle, fallback cycle, query, or the first run
\* of another session, which constructs a SuperBowlAgent) leaves
\* game_state["quarter"] lower than it was.
C20_QuarterNeverDecreases ==
    [][game_state'.quarter >= game_state.quarter]_vars

\* C11: after a cycle in which the feed call or a text-generation call
\* failed, main()'s loop is still running: it ends only when the game has.
C11_LoopSurvivesErrors ==
    loop # "error"

\* C15: every step that calls simulate_game_update once, from the dashboard
\* or inside run_update_cycle, increases update_count by exactly 1.
C15_CountsAdvances ==
    [][(call'.fellback \/ call'.written # {}) =>
        update_count' = update_count + 1]_vars

\* The score the fallback of the cycle just taken started from: the one
\* the cycle's try block assigned from the event, or else the stored one.
ScoreBefore(team) ==
    IF "current_score" \in call'.written
    THEN EventScore(call'.response, team)
    ELSE game_state.current_score[team]

\* C16: in a cycle that runs the fallback, the fallback changes the score
\* only when update_count is a multiple of 10 and game_ended is false, and
\* then adds 3, 6 or 7 to exactly one team; in every other such cycle it
\* leaves both scores as they were.
C16_FallbackScoring ==
    [][call'.fellback =>
        LET dNE  == game_state'.current_score.NE - ScoreBefore("NE")
            dSEA == game_state'.current_score.SEA - ScoreBefore("SEA")
            pts  == {k.points : k \in Picks}
        IN  IF update_count' % ScoreEvery = 0 /\ ~game_state'.game_ended
            THEN \/ dNE \in pts /\ dSEA = 0
                 \/ dSEA \in pts /\ dNE = 0
            ELSE dNE = 0 /\ dSEA = 0]_vars

\* The tenth cycle of a session without a feed has scored.
C16_Witness ==
    /\ Simulated /\ call.fellback
    /\ update_count = ScoreEvery
    /\ ~game_state.game_ended
    /\ game_state.current_score.NE + game_state.current_score.SEA
            \in {k.points : k \in Picks}

Advancing == {s \in Sessions : advance[s].pc # "idle"}

\* What a reader finds between calls was written by one call: the scores
\* and the possession a live-sync cycle stored belong to the same event.
WholeSnapshot ==
    (Advancing = {} /\ game_state.current_score.NE > 0) =>
        \E e \in SessionResponses :
            /\ e.kind = "event"
            /\ game_state.current_score.NE = EventScore(e, "NE")
            /\ game_state.current_score.SEA = EventScore(e, "SEA")
            /\ game_state.possession = e.possession

\* C14: with two sessions on the shared game_state, at most one call of
\* simulate_game_update is in progress at any time, the writes of two calls
\* do not interleave, and a reader between calls finds the fields of one.
C14_OneAdvanceAtATime ==
    /\ Cardinality(Advancing) <= 1
    /\ WholeSnapshot

====
